---- MODULE Spec2Model ----
(***************************************************************************)
(* cut-it: the task document model of src/cut_it/formatter.py.             *)
(*                                                                         *)
(* A document is a Python str, modelled as a TLA+ string; every operation  *)
(* of TaskFormatter is translated character for character (split on       *)
(* "\n", strip, startswith, join).  Two characters of the source are not   *)
(* ASCII and are written with one-character stand-ins, so that every       *)
(* length and prefix test is unchanged:                                    *)
(*     U+2610 BALLOT BOX            is written  O                          *)
(*     U+2611 BALLOT BOX WITH CHECK is written  X                          *)
(* and the i-acute of the pt_br label "Concluido" is written i.            *)
(***************************************************************************)
EXTENDS Integers, Sequences, FiniteSets, TLC

(***************************************************************************)
(* Python str primitives used by the formatter                             *)
(***************************************************************************)

\* one character of s (s[k-1] in Python), "" outside the string
CharAt(s, k) == SubSeq(s, k, k)

\* the characters str.strip() removes
IsSpace(c) == c \in {" ", "\t", "\n", "\r"}

RECURSIVE LStrip(_)
LStrip(s) ==
    IF s = "" THEN ""
    ELSE IF IsSpace(CharAt(s, 1)) THEN LStrip(SubSeq(s, 2, Len(s)))
    ELSE s

RECURSIVE RStrip(_)
RStrip(s) ==
    IF s = "" THEN ""
    ELSE IF IsSpace(CharAt(s, Len(s))) THEN RStrip(SubSeq(s, 1, Len(s) - 1))
    ELSE s

\* str.strip()
Strip(s) == RStrip(LStrip(s))

\* str.startswith(p)
StartsWith(s, p) == Len(s) >= Len(p) /\ SubSeq(s, 1, Len(p)) = p

\* str.split('\n'): always at least one element
Split(s) ==
    LET nl == SelectSeq([k \in 1..Len(s) |-> k], LAMBDA k : CharAt(s, k) = "\n")
    IN  [j \in 1..(Len(nl) + 1) |->
            SubSeq(s, IF j = 1 THEN 1 ELSE nl[j - 1] + 1,
                      IF j = Len(nl) + 1 THEN Len(s) ELSE nl[j] - 1)]

\* lines[a] through lines[b] with a newline between neighbours
RECURSIVE JoinRange(_, _, _)
JoinRange(lines, a, b) ==
    IF a = b THEN lines[a]
    ELSE LET m == (a + b) \div 2
         IN  JoinRange(lines, a, m) \o "\n" \o JoinRange(lines, m + 1, b)

\* "\n".join(lines)
Join(lines) == IF Len(lines) = 0 THEN "" ELSE JoinRange(lines, 1, Len(lines))

\* the lower-case form of each upper-case ASCII letter
LowerOf ==
    [A |-> "a", B |-> "b", C |-> "c", D |-> "d", E |-> "e", F |-> "f", G |-> "g",
     H |-> "h", I |-> "i", J |-> "j", K |-> "k", L |-> "l", M |-> "m", N |-> "n",
     O |-> "o", P |-> "p", Q |-> "q", R |-> "r", S |-> "s", T |-> "t", U |-> "u",
     V |-> "v", W |-> "w", X |-> "x", Y |-> "y", Z |-> "z"]

\* str.lower()
RECURSIVE Lower(_)
Lower(s) ==
    IF s = "" THEN ""
    ELSE (IF CharAt(s, 1) \in DOMAIN LowerOf THEN LowerOf[CharAt(s, 1)] ELSE CharAt(s, 1))
         \o Lower(SubSeq(s, 2, Len(s)))

DecimalDigits == "0123456789"

\* the decimal text of a natural number, as an f-string writes it
RECURSIVE Str(_)
Str(n) ==
    IF n < 10 THEN CharAt(DecimalDigits, n + 1)
    ELSE Str(n \div 10) \o CharAt(DecimalDigits, (n % 10) + 1)

(***************************************************************************)
(* TaskFormatter                                                           *)
(***************************************************************************)

UNCHECKED == "O"   \* U+2610
CHECKED   == "X"   \* U+2611

\* _get_labels with the language setting ignored
_get_labels_english(ptbr) ==
    [task |-> "TASK", progress |-> "Progress", pending |-> "Pending",
     started |-> "Started", completed |-> "Completed"]

\* TaskFormatter._get_labels
_get_labels(ptbr) ==
    IF ptbr
    THEN [task |-> "TAREFA", progress |-> "Progresso", pending |-> "Pendente",
          started |-> "Iniciado", completed |-> "Concluido"]
    ELSE [task |-> "TASK", progress |-> "Progress", pending |-> "Pending",
          started |-> "Started", completed |-> "Completed"]

status_order == <<"pending", "started", "completed">>

\* list.index: position (0-based) of key in status_order, 0 when absent
StatusIndex(key) ==
    IF \E k \in 1..Len(status_order) : status_order[k] = key
    THEN (CHOOSE k \in 1..Len(status_order) : status_order[k] = key) - 1
    ELSE 0

\* _generate_checkboxes checking the box of the current status alone
_generate_checkboxes_current_only(lab, current_status) ==
    LET current_index == StatusIndex(Lower(current_status))
    IN  [k \in 1..Len(status_order) |->
            "- " \o (IF k - 1 = current_index THEN CHECKED ELSE UNCHECKED)
                 \o " " \o lab[status_order[k]]]

\* _generate_checkboxes checking only the boxes before the current status
_generate_checkboxes_strict(lab, current_status) ==
    LET current_index == StatusIndex(Lower(current_status))
    IN  [k \in 1..Len(status_order) |->
            "- " \o (IF k - 1 < current_index THEN CHECKED ELSE UNCHECKED)
                 \o " " \o lab[status_order[k]]]

\* _generate_checkboxes writing its lines with another bullet
_generate_checkboxes_starred(lab, current_status) ==
    LET current_index == StatusIndex(Lower(current_status))
    IN  [k \in 1..Len(status_order) |->
            "* " \o (IF k - 1 <= current_index THEN CHECKED ELSE UNCHECKED)
                 \o " " \o lab[status_order[k]]]

\* TaskFormatter._generate_checkboxes
_generate_checkboxes(lab, current_status) ==
    LET current_index == StatusIndex(Lower(current_status))
    IN  [k \in 1..Len(status_order) |->
            "- " \o (IF k - 1 <= current_index THEN CHECKED ELSE UNCHECKED)
                 \o " " \o lab[status_order[k]]]

\* the lines format_as_tasks appends for chunks[i..]
RECURSIVE TaskBlocks(_, _, _, _)
TaskBlocks(lab, chunks, i, initial_status) ==
    IF i > Len(chunks) THEN <<>>
    ELSE <<"---", "",
           "## " \o lab.task \o " " \o Str(i),
           "**" \o lab.progress \o ":** " \o lab[Lower(initial_status)],
           "">>
         \o _generate_checkboxes(lab, initial_status)
         \o <<"", Strip(chunks[i]), "">>
         \o TaskBlocks(lab, chunks, i + 1, initial_status)

\* format_as_tasks without the early return for an empty chunk list
format_as_tasks_no_notice(lab, chunks, filename, initial_status) ==
    Join(<<"# " \o filename, "">>
         \o TaskBlocks(lab, chunks, 1, initial_status)
         \o <<"---">>)

\* TaskFormatter.format_as_tasks
format_as_tasks(lab, chunks, filename, initial_status) ==
    IF Len(chunks) = 0
    THEN "# " \o filename \o "\n\n---\n\nNo content to process.\n\n---\n"
    ELSE Join(<<"# " \o filename, "">>
              \o TaskBlocks(lab, chunks, 1, initial_status)
              \o <<"---">>)

\* formatter.py:127/194, the header line the loops look for
task_pattern(lab, task_number) == "## " \o lab.task \o " " \o Str(task_number)

\* the header test by startswith, on the line as it is
IsTargetHeader_startswith(line, pattern) == StartsWith(line, pattern)

\* the header test matching by prefix
IsTargetHeader_prefix(line, pattern) == StartsWith(Strip(line), pattern)

\* formatter.py:132/201, the test that a line is the header of the target task
IsTargetHeader(line, pattern) == Strip(line) = pattern

\* formatter.py:139/207, the test that a line is a progress line
IsProgressLine(lab, line) == StartsWith(line, "**" \o lab.progress \o ":**")

\* formatter.py:144/208, the test that a line is a checklist line
IsCheckboxLine(line) ==
    StartsWith(line, "- " \o UNCHECKED) \/ StartsWith(line, "- " \o CHECKED)

\* formatter.py:157, the test that ends the target task's region
EndsTask(line) == StartsWith(line, "## ") \/ Strip(line) = "---"

\* formatter.py:140, the key under which the new status is looked up
StatusKey_verbatim(new_status) == new_status

\* formatter.py:140, the key under which the new status is looked up:
\* new_status.lower()
StatusKey(new_status) == Lower(new_status)

\* the checklist edited in place: a box already checked is kept as it is
ReplaceCheckbox_keep_checked(lab, new_status, st, line) ==
    IF StartsWith(line, "- " \o CHECKED)
    THEN [st EXCEPT !.appended = <<line>>]
    ELSE IF ~st.checkbox_section
    THEN [st EXCEPT !.appended = _generate_checkboxes(lab, new_status),
                    !.checkbox_section = TRUE]
    ELSE [st EXCEPT !.appended = <<>>]

\* what update_task_status does with a checklist line of the target task
ReplaceCheckbox(lab, new_status, st, line) ==
    IF ~st.checkbox_section
    THEN [st EXCEPT !.appended = _generate_checkboxes(lab, new_status),
                    !.checkbox_section = TRUE]
    ELSE [st EXCEPT !.appended = <<>>]

\* one iteration of the loop of update_task_status over `line`, entered with
\* the flags of st: the lines it appends to updated_lines and the flags it
\* leaves.  raised: the lookup labels[key] was made with a key that labels
\* does not hold (KeyError), here or in an earlier iteration
UpdateStep(lab, pattern, new_status, st, line) ==
    IF st.raised THEN [st EXCEPT !.appended = <<>>]
    ELSE IF IsTargetHeader(line, pattern)
    THEN [st EXCEPT !.appended = <<line>>, !.in_target_task = TRUE]
    ELSE IF st.in_target_task /\ IsProgressLine(lab, line)
    THEN IF StatusKey(new_status) \in DOMAIN lab
         THEN [st EXCEPT !.appended =
                   <<"**" \o lab.progress \o ":** " \o lab[StatusKey(new_status)]>>]
         ELSE [st EXCEPT !.appended = <<>>, !.raised = TRUE]
    ELSE IF st.in_target_task /\ IsCheckboxLine(line)
    THEN ReplaceCheckbox(lab, new_status, st, line)
    ELSE IF st.in_target_task /\ EndsTask(line)
    THEN [st EXCEPT !.appended = <<line>>, !.in_target_task = FALSE,
                    !.checkbox_section = FALSE]
    ELSE [st EXCEPT !.appended = <<line>>]

\* the loop of update_task_status over lines[a..b], entered with the flags of
\* st: the first half runs, then the second half from the flags the first left
RECURSIVE UpdateLoop(_, _, _, _, _, _, _)
UpdateLoop(lab, pattern, new_status, lines, a, b, st) ==
    IF a = b THEN UpdateStep(lab, pattern, new_status, st, lines[a])
    ELSE LET m == (a + b) \div 2
             first == UpdateLoop(lab, pattern, new_status, lines, a, m, st)
             second == UpdateLoop(lab, pattern, new_status, lines, m + 1, b, first)
         IN  [appended |-> first.appended \o second.appended,
              in_target_task |-> second.in_target_task,
              checkbox_section |-> second.checkbox_section,
              raised |-> second.raised]

\* the run of update_task_status: the lines of updated_lines and whether the
\* call ended in an exception
UpdateRun(lab, content, task_number, new_status) ==
    LET lines == Split(content)
    IN  UpdateLoop(lab, task_pattern(lab, task_number), new_status,
                   lines, 1, Len(lines),
                   [appended |-> <<>>, in_target_task |-> FALSE,
                    checkbox_section |-> FALSE, raised |-> FALSE])

\* TaskFormatter.update_task_status, the value returned
update_task_status(lab, content, task_number, new_status) ==
    Join(UpdateRun(lab, content, task_number, new_status).appended)

\* formatter.py:178, the test that a line counts as a task header
IsAnyTaskHeader(lab, line) == StartsWith(line, "## " \o lab.task \o " ")

\* the loop of get_task_count over lines[a..b]: what it adds to count
RECURSIVE CountLoop(_, _, _, _)
CountLoop(lab, lines, a, b) ==
    IF a = b THEN (IF IsAnyTaskHeader(lab, lines[a]) THEN 1 ELSE 0)
    ELSE LET m == (a + b) \div 2
         IN  CountLoop(lab, lines, a, m) + CountLoop(lab, lines, m + 1, b)

\* TaskFormatter.get_task_count
get_task_count(lab, content) ==
    LET lines == Split(content) IN CountLoop(lab, lines, 1, Len(lines))

\* one iteration of the loop of extract_task_content; stop models `break`
ExtractStep(lab, pattern, st, line) ==
    IF IsTargetHeader(line, pattern)
    THEN [st EXCEPT !.in_target_task = TRUE]
    ELSE IF ~st.in_target_task THEN st
    ELSE IF \/ IsProgressLine(lab, line)
            \/ IsCheckboxLine(line)
            \/ Strip(line) = ""
    THEN IF st.content_started /\ Strip(line) = ""
         THEN [st EXCEPT !.task_content = Append(@, line)]
         ELSE st
    ELSE IF Strip(line) = "---" \/ StartsWith(line, "## ")
    THEN [st EXCEPT !.stop = TRUE]
    ELSE [st EXCEPT !.content_started = TRUE, !.task_content = Append(@, line)]

\* the loop of extract_task_content over lines[a..b], entered in state st: no
\* line is looked at after the break
RECURSIVE ExtractLoop(_, _, _, _, _, _)
ExtractLoop(lab, pattern, lines, a, b, st) ==
    IF st.stop THEN st
    ELSE IF a = b THEN ExtractStep(lab, pattern, st, lines[a])
    ELSE LET m == (a + b) \div 2
         IN  ExtractLoop(lab, pattern, lines, m + 1, b,
                         ExtractLoop(lab, pattern, lines, a, m, st))

\* TaskFormatter.extract_task_content
extract_task_content(lab, content, task_number) ==
    LET lines == Split(content)
    IN  Strip(Join(ExtractLoop(lab, task_pattern(lab, task_number),
                               lines, 1, Len(lines),
                               [in_target_task |-> FALSE, content_started |-> FALSE,
                                task_content |-> <<>>, stop |-> FALSE]).task_content))

(***************************************************************************)
(* TextProcessor.  The library semantic_text_splitter is outside the       *)
(* repository: a call into it either raises or returns, and what it        *)
(* returns is any list of strings.  chunk_size is a tuple (min, max) or an *)
(* int: [tuple |-> TRUE, min |-> _, max |-> _] or [tuple |-> FALSE,        *)
(* size |-> _].                                                            *)
(***************************************************************************)

\* the positions where text.split('\n\n') may cut at or after `start`
BlankLineCuts(s, start) ==
    {k \in start..(Len(s) - 1) : SubSeq(s, k, k + 1) = "\n\n"}

\* text.split('\n\n') from position `start` on: cuts are taken left to
\* right and do not overlap
RECURSIVE SplitParagraphsFrom(_, _)
SplitParagraphsFrom(s, start) ==
    LET cuts == BlankLineCuts(s, start)
    IN  IF cuts = {} THEN <<SubSeq(s, start, Len(s))>>
        ELSE LET k == CHOOSE c \in cuts : \A d \in cuts : c <= d
             IN  <<SubSeq(s, start, k - 1)>> \o SplitParagraphsFrom(s, k + 2)

\* splitter.py:79, text.split('\n\n')
SplitParagraphs(s) == SplitParagraphsFrom(s, 1)

\* splitter.py:82, the size the fallback compares against
max_size(chunk_size) == IF chunk_size.tuple THEN chunk_size.max ELSE chunk_size.size

\* the loop comparing the lengths without the separator
FallbackStep_no_separator(max, st, paragraph) ==
    LET p == Strip(paragraph)
    IN  IF p = "" THEN st
        ELSE IF st.current_chunk # "" /\ Len(st.current_chunk) + Len(p) > max
        THEN [chunks |-> Append(st.chunks, Strip(st.current_chunk)),
              current_chunk |-> p]
        ELSE IF st.current_chunk # ""
        THEN [st EXCEPT !.current_chunk = @ \o "\n\n" \o p]
        ELSE [st EXCEPT !.current_chunk = p]

\* one iteration of the loop of _fallback_split over `paragraph`
FallbackStep(max, st, paragraph) ==
    LET p == Strip(paragraph)
    IN  IF p = "" THEN st
        ELSE IF st.current_chunk # "" /\ Len(st.current_chunk) + Len(p) + 2 > max
        THEN [chunks |-> Append(st.chunks, Strip(st.current_chunk)),
              current_chunk |-> p]
        ELSE IF st.current_chunk # ""
        THEN [st EXCEPT !.current_chunk = @ \o "\n\n" \o p]
        ELSE [st EXCEPT !.current_chunk = p]

RECURSIVE FallbackLoop(_, _, _, _)
FallbackLoop(max, paragraphs, k, st) ==
    IF k > Len(paragraphs) THEN st
    ELSE FallbackLoop(max, paragraphs, k + 1, FallbackStep(max, st, paragraphs[k]))

\* _fallback_split without the append after the loop
_fallback_split_without_last(chunk_size, text) ==
    LET st == FallbackLoop(max_size(chunk_size), SplitParagraphs(text), 1,
                           [chunks |-> <<>>, current_chunk |-> ""])
    IN  IF Len(st.chunks) > 0 THEN st.chunks ELSE <<Strip(text)>>

\* TextProcessor._fallback_split
_fallback_split(chunk_size, text) ==
    LET st == FallbackLoop(max_size(chunk_size), SplitParagraphs(text), 1,
                           [chunks |-> <<>>, current_chunk |-> ""])
        chunks == IF Strip(st.current_chunk) # ""
                  THEN Append(st.chunks, Strip(st.current_chunk))
                  ELSE st.chunks
    IN  IF Len(chunks) > 0 THEN chunks ELSE <<Strip(text)>>

\* the primary chunks kept as the library returned them, the empty ones dropped
StrippedNonEmpty_untrimmed(chunks) ==
    SelectSeq(chunks, LAMBDA chunk : Strip(chunk) # "")

\* splitter.py:71, [chunk.strip() for chunk in chunks if chunk.strip()]
StrippedNonEmpty(chunks) ==
    LET kept == SelectSeq(chunks, LAMBDA chunk : Strip(chunk) # "")
    IN  [k \in 1..Len(kept) |-> Strip(kept[k])]

\* TextProcessor.split_text; primary is what self.splitter.chunks(text) does:
\* [raises |-> TRUE] or [raises |-> FALSE, chunks |-> the list returned]
split_text(chunk_size, text, primary) ==
    IF Strip(text) = "" THEN <<>>
    ELSE IF primary.raises THEN _fallback_split(chunk_size, text)
    ELSE StrippedNonEmpty(primary.chunks)

\* the path split_text takes
split_path(text, primary) ==
    IF Strip(text) = "" THEN "empty"
    ELSE IF primary.raises THEN "fallback"
    ELSE "primary"

\* TextProcessor._create_splitter: the library class whose from_tiktoken_model
\* is called
_create_splitter(file_type) ==
    IF file_type = "markdown" THEN "MarkdownSplitter" ELSE "TextSplitter"

(***************************************************************************)
(* Config and ConfigManager.  A Config object is its five fields and       *)
(* `shadowed`, the names other than fields that setattr has set on the     *)
(* instance.  The file at config_path is [kind |-> _, data |-> _]:         *)
(*   "absent"       no file                                                *)
(*   "object"       a JSON object, data its members                        *)
(*   "not_json"     text that json.load rejects (JSONDecodeError), the     *)
(*                  empty text included                                    *)
(*   "json_other"   valid JSON that is not an object (list, string,        *)
(*                  number, null)                                          *)
(*   "undecodable"  bytes that are not UTF-8 text                          *)
(***************************************************************************)

\* Config.__annotations__
ConfigFields == {"chunk_size_min", "chunk_size_max", "model", "pt_br", "cli_mode"}

\* Config(): the field defaults, config.py:13-17
Config ==
    [chunk_size_min |-> 300, chunk_size_max |-> 500, model |-> "gpt-4",
     pt_br |-> FALSE, cli_mode |-> TRUE, shadowed |-> {}]

\* attributes of a Config object that are not fields, among them its methods
MethodNames == {"from_dict", "to_dict"}

\* from_dict passing every member of the record on
from_dict_every_member(data) ==
    [k \in (ConfigFields \cup DOMAIN data) \cup {"shadowed"} |->
        IF k = "shadowed" THEN {}
        ELSE IF k \in DOMAIN data THEN data[k] ELSE Config[k]]

\* Config.from_dict
from_dict(data) ==
    [k \in ConfigFields \cup {"shadowed"} |->
        IF k \in ConfigFields /\ k \in DOMAIN data THEN data[k] ELSE Config[k]]

\* Config.to_dict: dataclasses.asdict, the fields alone
to_dict(c) == [k \in ConfigFields |-> c[k]]

NoData == <<>>

\* ConfigManager.load: the Config returned, or the exception that leaves it
load(file) ==
    IF file.kind = "absent" \/ file.kind = "not_json"
    THEN [raised |-> FALSE, error |-> "", config |-> Config]
    ELSE IF file.kind = "undecodable"
    THEN [raised |-> TRUE, error |-> "UnicodeDecodeError", config |-> Config]
    ELSE IF file.kind = "json_other"
    THEN [raised |-> TRUE, error |-> "AttributeError", config |-> Config]
    ELSE [raised |-> FALSE, error |-> "", config |-> from_dict(file.data)]

\* ConfigManager.save: the file is opened for writing, which empties it, and
\* then config.to_dict() is called and its result written
save(c) ==
    IF "to_dict" \in c.shadowed
    THEN [raised |-> TRUE, error |-> "TypeError",
          file |-> [kind |-> "not_json", data |-> NoData]]
    ELSE [raised |-> FALSE, error |-> "",
          file |-> [kind |-> "object", data |-> to_dict(c)]]

\* config.py:58, hasattr(config, key)
hasattr(c, key) == key \in ConfigFields \cup MethodNames \cup c.shadowed

\* config.py:57-59, the loop of update over kwargs
SetAttrs(c, kwargs) ==
    [k \in ConfigFields \cup {"shadowed"} |->
        IF k = "shadowed"
        THEN c.shadowed \cup {key \in DOMAIN kwargs : hasattr(c, key) /\ key \notin ConfigFields}
        ELSE IF k \in DOMAIN kwargs /\ hasattr(c, k) THEN kwargs[k] ELSE c[k]]

\* ConfigManager.update: the Config returned or the exception raised, and the
\* file afterwards
update(file, kwargs) ==
    LET loaded == load(file)
        c == SetAttrs(loaded.config, kwargs)
        saved == save(c)
    IN  IF loaded.raised
        THEN [raised |-> TRUE, error |-> loaded.error, config |-> Config, file |-> file]
        ELSE [raised |-> saved.raised, error |-> saved.error, config |-> c,
              file |-> saved.file]

(***************************************************************************)
(* The process command of cli.py.  An option that was not given is         *)
(* [given |-> FALSE]; the input file is [exists |-> _, decodable |-> _,    *)
(* name |-> _, text |-> _].  An exception that nothing catches ends the    *)
(* command with exit code 1.                                               *)
(***************************************************************************)

\* the positions of the dots of a file name after its first character
DotPositions(name) == {k \in 2..Len(name) : CharAt(name, k) = "."}

\* Path.suffix: from the last dot on, "" without one
Suffix(name) ==
    IF DotPositions(name) = {} THEN ""
    ELSE LET d == CHOOSE k \in DotPositions(name) : \A j \in DotPositions(name) : j <= k
         IN  SubSeq(name, d, Len(name))

\* the suffix added after the name as it is
with_suffix_appended(name, suffix) == name \o suffix

\* Path.with_suffix(suffix)
with_suffix(name, suffix) ==
    SubSeq(name, 1, Len(name) - Len(Suffix(name))) \o suffix

\* cli.py:31-36
code_extensions ==
    { ".py", ".js", ".ts", ".jsx", ".tsx", ".java", ".cpp", ".c", ".h",
      ".cs", ".php", ".rb", ".go", ".rs", ".swift", ".kt", ".scala",
      ".clj", ".hs", ".ml", ".fs", ".elm", ".dart", ".lua", ".r",
      ".sql", ".sh", ".bash", ".zsh", ".fish", ".ps1", ".bat", ".cmd" }

\* cli.get_file_type
get_file_type(name) ==
    LET suffix == Lower(Suffix(name))
    IN  IF suffix \in {".md", ".markdown"} THEN "markdown"
        ELSE IF suffix \in code_extensions THEN "code"
        ELSE "text"

NotGiven == [given |-> FALSE]

\* config.py:32, the path of the configuration file
config_path == "~/.cut-it/config.json"

\* the file at config_path after a run that found `file` there and wrote
\* `written`: cli.py:120 writes the text to output_path, and a text
\* format_as_tasks returns begins with '# ', which json.load rejects
FileAfter(file, written) ==
    IF \E k \in 1..Len(written) : written[k].path = config_path
    THEN [kind |-> "not_json", data |-> NoData]
    ELSE file

\* cli.py:58-62, the loaded Config overridden by --size and --model
Override(c, size, model) ==
    [c EXCEPT !.chunk_size_min = IF size.given THEN size.min ELSE @,
              !.chunk_size_max = IF size.given THEN size.max ELSE @,
              !.model = IF model.given /\ model.value # "" THEN model.value ELSE @]

\* the run of the command up to a step that ends it
Ended(code, error, steps) ==
    [name |-> "process", exited |-> TRUE, exit_code |-> code, error |-> error,
     steps |-> steps, written |-> <<>>]

\* cli.process: file is the config file, created and primary what the library
\* does in TextProcessor.__init__ and in split_text
process(file, input, output, size, model, force_type, created, primary) ==
    LET loaded == load(file)
        c == Override(loaded.config, size, model)
        file_type == IF force_type.given /\ force_type.value # ""
                     THEN force_type.value ELSE get_file_type(input.name)
        output_path == IF output.given /\ output.value # "" THEN output.value
                       ELSE with_suffix(input.name, ".tasks.md")
        chunk_size == [tuple |-> TRUE, min |-> c.chunk_size_min, max |-> c.chunk_size_max]
        chunks == split_text(chunk_size, input.text, primary)
        formatted_output ==
            format_as_tasks(_get_labels(c.pt_br), chunks, input.name, "Pending")
    IN  IF loaded.raised THEN Ended(1, loaded.error, <<"load">>)
        ELSE IF ~input.exists THEN Ended(1, "", <<"load", "exists">>)
        ELSE IF ~input.decodable THEN Ended(1, "", <<"load", "exists", "read">>)
        ELSE IF ~created
        THEN Ended(1, "from_tiktoken_model", <<"load", "exists", "read", "TextProcessor">>)
        ELSE [name |-> "process", exited |-> TRUE, exit_code |-> 0, error |-> "",
              steps |-> <<"load", "exists", "read", "TextProcessor", "split_text",
                          "format_as_tasks", "write">>,
              written |-> <<[path |-> output_path, text |-> formatted_output]>>]

(***************************************************************************)
(* Inputs                                                                  *)
(***************************************************************************)

\* the largest number of chunks handed to format_as_tasks
MaxChunks == 2

Statuses == {"Pending", "Started", "Completed"}

\* the task numbers a caller passes: every task of the largest document and
\* one number past it
TaskNumbers == 1..(MaxChunks + 1)

\* chunk texts: a plain one, and a padded one with an inner blank line and
\* with lines shaped like a checklist line, a progress line, a divider, the
\* header of task 2 and, indented, the header of task 1
ChunkTexts ==
    { "First chunk",
      "  a\n\n- O b\n**Progress:** c\n---\n## TASK 2\n- X d \n ## TASK 1\n**Progress:** e\n" }

RECURSIVE SeqsUpTo(_, _)
SeqsUpTo(S, n) ==
    IF n = 0 THEN {<<>>}
    ELSE LET shorter == SeqsUpTo(S, n - 1)
         IN  shorter \cup {Append(q, x) : q \in shorter, x \in S}

ChunkLists == SeqsUpTo(ChunkTexts, MaxChunks)

Filenames == {"test.txt"}

\* the number of chunks of a long document: its last task numbers begin with
\* the digit of task 1
ManyChunks == 11

\* the chunk lists of the long documents: plain chunks, ten and eleven
ManyChunkLists ==
    {[k \in 1..n |-> "Chunk " \o Str(k)] : n \in {ManyChunks - 1, ManyChunks}}

\* the task numbers passed on a long document: the first, and the last two
ManyTaskNumbers == {1, ManyChunks - 1, ManyChunks}

\* texts that no call of format_as_tasks produced
ForeignTexts ==
    { "",
      "plain text\nwith two lines",
      "## TASK 1",
      "  ## TASK 1  \n**Progress:** Pending\n- O Pending\nbody\n---\n## TAREFA 1\n- X a\n- X b",
      "## TASK 12\n**Progress:** Pending\n\ntwelve\n## TASK 1junk\n" }

\* the chunk_size arguments: two tuples and an int
ChunkSizes ==
    { [tuple |-> TRUE, min |-> 5, max |-> 12],
      [tuple |-> FALSE, size |-> 8],
      [tuple |-> TRUE, min |-> 300, max |-> 500] }

Models == {"gpt-4", "no-such-model"}

FileTypes == {"text", "markdown", "code"}

\* the texts handed to split_text: empty, blank, one paragraph, paragraphs
\* apart by two and by three blank lines, padded paragraphs
SplitTexts ==
    { "",
      "   \n\n   ",
      "Some test text",
      "Para 1\n\n\n\nPara 2\n\n\n\nPara 3",
      " a\n\nbb \n\n\nccc \n\ndddddddddddddd\n\ne" }

\* the texts handed to _fallback_split directly: those of split_text, two
\* paragraphs whose lengths and separator add up to a bound, and the two long
\* paragraphs of test_fallback_split_long_paragraphs
FallbackTexts ==
    SplitTexts \cup
        { "aaaa\n\nbbbbbb",
          "This is a very long paragraph that should be split.\n\nAnother very long paragraph that should also be split." }

\* the lists self.splitter.chunks(text) may return
PrimaryReturns ==
    { <<>>,
      <<"chunk1", "chunk2", " chunk3 ">>,
      <<"  ", "a", "", "b\n">>,
      <<" \n">> }

\* what self.splitter.chunks(text) may do
PrimaryOutcomes ==
    {[raises |-> TRUE, chunks |-> <<>>]}
        \cup {[raises |-> FALSE, chunks |-> c] : c \in PrimaryReturns}

\* what the file at config_path holds before the first call
InitialFiles ==
    { [kind |-> "absent", data |-> NoData],
      [kind |-> "not_json", data |-> NoData],
      [kind |-> "json_other", data |-> NoData],
      [kind |-> "undecodable", data |-> NoData],
      [kind |-> "object", data |-> [model |-> "gpt-3.5-turbo", unknown_key |-> "value"]],
      [kind |-> "object",
       data |-> [chunk_size_min |-> 100, chunk_size_max |-> 200,
                 model |-> "gpt-3.5-turbo", pt_br |-> TRUE, cli_mode |-> FALSE]] }

\* the keyword arguments of the update calls
UpdateArgs ==
    { [model |-> "gpt-3.5-turbo"],
      [chunk_size_min |-> 150, chunk_size_max |-> 250],
      [chunk_size_min |-> 500, chunk_size_max |-> 300],
      [chunk_size_min |-> 600],
      [chunk_size_max |-> 0],
      [pt_br |-> TRUE, cli_mode |-> FALSE],
      [invalid_key |-> "value"],
      [model |-> "gpt-4", invalid_key |-> "value"],
      [from_dict |-> 1],
      [to_dict |-> 1] }

\* the input files of the process command: missing, not UTF-8, and four
\* that can be read
InputFiles ==
    { [exists |-> FALSE, decodable |-> FALSE, name |-> "nonexistent.txt", text |-> ""],
      [exists |-> TRUE, decodable |-> FALSE, name |-> "test.txt", text |-> ""],
      [exists |-> TRUE, decodable |-> TRUE, name |-> "test.txt", text |-> "Test content"],
      [exists |-> TRUE, decodable |-> TRUE, name |-> "notes.md",
       text |-> "Para 1\n\n\n\nPara 2"],
      [exists |-> TRUE, decodable |-> TRUE, name |-> "script.py", text |-> " \n"],
      [exists |-> TRUE, decodable |-> TRUE, name |-> "archive.tar.gz",
       text |-> "a\n\nbb"] }

OutputOptions ==
    {NotGiven, [given |-> TRUE, value |-> "out.md"], [given |-> TRUE, value |-> config_path]}

SizeOptions ==
    {NotGiven, [given |-> TRUE, min |-> 5, max |-> 12], [given |-> TRUE, min |-> 0, max |-> 0]}

ModelOptions == {NotGiven, [given |-> TRUE, value |-> "no-such-model"]}

TypeOptions == {NotGiven, [given |-> TRUE, value |-> "markdown"]}

(***************************************************************************)
(* State: one TaskFormatter and the document text its caller holds.  The   *)
(* caller obtains a text (from elsewhere, or by format_as_tasks), passes   *)
(* it through update_task_status any number of times, keeping the result,  *)
(* and reads it with get_task_count or extract_task_content.  The reads    *)
(* return a value and leave the text as it is, so a behaviour ends with    *)
(* its read.                                                               *)
(***************************************************************************)

VARIABLES
    pt_br,      \* TaskFormatter.pt_br
    labels,     \* TaskFormatter.labels
    chunks,     \* the chunks argument of the format_as_tasks call
    filename,   \* its filename argument
    rendered,   \* what that call returned
    obtained,   \* the document text as the caller obtained it, before any update
    origin,     \* "foreign" or "rendered": where the current text began
    content,    \* the current document text
    assigned,   \* per task of a rendered document, the status most recently
                \* given to it (by the render or by an update addressed to it)
    history,    \* the updates since the text was obtained: "none", "one",
                \* "same" (two or more, all with the task number of the last
                \* call) or "mixed"
    call,       \* the last call: its name, its arguments and, for a read, the
                \* value returned (count or text)
    processor,  \* the TextProcessor: its fields, or that its constructor raised
    split,      \* the last split_text or _fallback_split call: the chunk_size
                \* and file type of the instance, how the call stands to the
                \* one before, its text, what the library did, the chunks
                \* returned
    config_file,    \* what the file at ConfigManager.config_path holds
    config,         \* the Config the last load or update returned
    config_call,    \* the last ConfigManager call: name, arguments, outcome
    named,          \* per Config field, the value the most recent update
                    \* naming it gave, the default when none did
    began_absent,   \* there was no file at config_path before the first call
    cmd             \* the run of the process command: options, steps, exit code

formatterVars ==
    <<pt_br, labels, chunks, filename, rendered, obtained, origin, content, assigned,
      history, call>>

splitterVars == <<processor, split>>

configVars == <<config_file, config, config_call, named, began_absent>>

vars == <<formatterVars, splitterVars, configVars, cmd>>

NoCall ==
    [name |-> "none", task_number |-> 0, new_status |-> "", count |-> 0, text |-> "",
     raised |-> FALSE]

IsRead == call.name \in {"get_task_count", "extract_task_content"}

\* no TextProcessor yet
NoProcessor ==
    [state |-> "none", chunk_size |-> [tuple |-> FALSE, size |-> 0], model |-> "",
     file_type |-> "", splitter |-> ""]

\* self.splitter.chunks was not called
NotCalled == [raises |-> FALSE, chunks |-> <<>>]

NoSplit ==
    [call |-> "none", chunk_size |-> [tuple |-> FALSE, size |-> 0], file_type |-> "",
     again |-> "no", text |-> "", primary |-> NotCalled, path |-> "none",
     chunks |-> <<>>]

\* how a run of the fallback on text t stands to the call before it: "same"
\* when that call ran the fallback on t with the same chunk_size on an
\* instance of the same file type, "other" when on one of another file type
Again(t) ==
    IF split.path = "fallback" /\ split.text = t
           /\ split.chunk_size = processor.chunk_size
    THEN IF split.file_type = processor.file_type THEN "same" ELSE "other"
    ELSE "no"

SplitterIdle == processor = NoProcessor /\ split = NoSplit

AbsentFile == [kind |-> "absent", data |-> NoData]

NoConfigCall == [name |-> "none", kwargs |-> NoData, raised |-> FALSE, error |-> ""]

ConfigIdle ==
    /\ config_file = AbsentFile
    /\ config = Config
    /\ config_call = NoConfigCall
    /\ named = to_dict(Config)
    /\ began_absent = TRUE

\* the command was not run
NoRun ==
    [name |-> "none", exited |-> FALSE, exit_code |-> 0, error |-> "",
     steps |-> <<>>, written |-> <<>>]

NoCmd ==
    [input |-> [exists |-> FALSE, decodable |-> FALSE, name |-> "", text |-> ""],
     output |-> NotGiven, size |-> NotGiven, model |-> NotGiven,
     force_type |-> NotGiven, created |-> FALSE, primary |-> NotCalled,
     run |-> NoRun]

ProcessIdle == cmd = NoCmd

\* a TaskFormatter that is not used
FormatterIdle ==
    /\ pt_br = FALSE
    /\ labels = _get_labels(FALSE)
    /\ chunks = <<>>
    /\ filename = ""
    /\ rendered = ""
    /\ obtained = ""
    /\ origin = "foreign"
    /\ content = ""
    /\ assigned = <<>>
    /\ history = "none"
    /\ call = NoCall

\* TaskFormatter.__init__, and a document text obtained from elsewhere
Init ==
    /\ pt_br \in BOOLEAN
    /\ labels = _get_labels(pt_br)
    /\ chunks = <<>>
    /\ filename = ""
    /\ rendered = ""
    /\ origin = "foreign"
    /\ content \in ForeignTexts
    /\ obtained = content
    /\ assigned = <<>>
    /\ history = "none"
    /\ call = NoCall
    /\ SplitterIdle /\ ConfigIdle /\ ProcessIdle

FormatAsTasks(c, f) ==
    /\ call.name = "none"
    /\ chunks' = c
    /\ filename' = f
    /\ rendered' = format_as_tasks(labels, c, f, "Pending")
    /\ content' = rendered'
    /\ obtained' = rendered'
    /\ origin' = "rendered"
    /\ assigned' = [i \in 1..Len(c) |-> "Pending"]
    /\ history' = "none"
    /\ call' = [NoCall EXCEPT !.name = "format_as_tasks"]
    /\ UNCHANGED <<pt_br, labels>>
    /\ UNCHANGED <<splitterVars, configVars, cmd>>

UpdateTaskStatus(n, s) ==
    /\ ~IsRead
    /\ \E run \in {UpdateRun(labels, content, n, s)} :
           /\ content' = IF run.raised THEN content ELSE Join(run.appended)
           /\ call' = [NoCall EXCEPT !.name = "update_task_status",
                                     !.task_number = n, !.new_status = s,
                                     !.raised = run.raised]
    /\ assigned' = IF n \in DOMAIN assigned THEN [assigned EXCEPT ![n] = s] ELSE assigned
    /\ history' = IF history = "none" THEN "one"
                  ELSE IF history = "mixed" \/ call.task_number # n THEN "mixed"
                  ELSE "same"
    /\ UNCHANGED <<pt_br, labels, chunks, filename, rendered, obtained, origin>>
    /\ UNCHANGED <<splitterVars, configVars, cmd>>

GetTaskCount ==
    /\ ~IsRead
    /\ call' = [NoCall EXCEPT !.name = "get_task_count",
                              !.count = get_task_count(labels, content)]
    /\ UNCHANGED <<pt_br, labels, chunks, filename, rendered, obtained, origin, content,
                   assigned, history>>
    /\ UNCHANGED <<splitterVars, configVars, cmd>>

ExtractTaskContent(n) ==
    /\ ~IsRead
    /\ call' = [NoCall EXCEPT !.name = "extract_task_content", !.task_number = n,
                              !.text = extract_task_content(labels, content, n)]
    /\ UNCHANGED <<pt_br, labels, chunks, filename, rendered, obtained, origin, content,
                   assigned, history>>
    /\ UNCHANGED <<splitterVars, configVars, cmd>>

Next ==
    \/ \E c \in ChunkLists, f \in Filenames : FormatAsTasks(c, f)
    \/ \E n \in TaskNumbers, s \in Statuses : UpdateTaskStatus(n, s)
    \/ GetTaskCount
    \/ \E n \in TaskNumbers : ExtractTaskContent(n)

Spec == Init /\ [][Next]_vars

(***************************************************************************)
(* State: one TaskFormatter and a document of ten or more tasks.           *)
(***************************************************************************)

InitMany ==
    /\ pt_br \in BOOLEAN
    /\ labels = _get_labels(pt_br)
    /\ chunks = <<>>
    /\ filename = ""
    /\ rendered = ""
    /\ obtained = ""
    /\ origin = "foreign"
    /\ content = ""
    /\ assigned = <<>>
    /\ history = "none"
    /\ call = NoCall
    /\ SplitterIdle /\ ConfigIdle /\ ProcessIdle

NextMany ==
    \/ \E c \in ManyChunkLists, f \in Filenames : FormatAsTasks(c, f)
    \/ \E n \in ManyTaskNumbers, s \in Statuses : UpdateTaskStatus(n, s)
    \/ GetTaskCount
    \/ \E n \in ManyTaskNumbers : ExtractTaskContent(n)

SpecMany == InitMany /\ [][NextMany]_vars

(***************************************************************************)
(* State: the TextProcessor most recently constructed.  Its caller         *)
(* constructs one, passes texts to split_text and to _fallback_split, and  *)
(* may construct another.                                                  *)
(***************************************************************************)

InitSplitter == FormatterIdle /\ SplitterIdle /\ ConfigIdle /\ ProcessIdle

\* TextProcessor.__init__: created is whether from_tiktoken_model returned a
\* splitter; when it raised, the exception leaves the constructor
NewTextProcessor(cs, m, ft, created) ==
    /\ processor' = [state |-> IF created THEN "ready" ELSE "raised",
                     chunk_size |-> cs, model |-> m, file_type |-> ft,
                     splitter |-> IF created THEN _create_splitter(ft) ELSE ""]
    /\ UNCHANGED <<split, formatterVars, configVars, cmd>>

\* TextProcessor.split_text(t), the library doing p when it is called
SplitText(t, p) ==
    /\ processor.state = "ready"
    /\ LET primary == IF Strip(t) = "" THEN NotCalled ELSE p
       IN  split' = [call |-> "split_text", chunk_size |-> processor.chunk_size,
                     file_type |-> processor.file_type,
                     again |-> IF split_path(t, primary) = "fallback"
                               THEN Again(t) ELSE "no",
                     text |-> t, primary |-> primary,
                     path |-> split_path(t, primary),
                     chunks |-> split_text(processor.chunk_size, t, primary)]
    /\ UNCHANGED <<processor, formatterVars, configVars, cmd>>

\* _fallback_split reading the file type of the instance as well
FallbackSplit_reads_file_type(t) ==
    /\ processor.state = "ready"
    /\ split' = [call |-> "_fallback_split", chunk_size |-> processor.chunk_size,
                 file_type |-> processor.file_type, again |-> Again(t),
                 text |-> t, primary |-> NotCalled, path |-> "fallback",
                 chunks |-> IF processor.file_type = "markdown" THEN <<Strip(t)>>
                            ELSE _fallback_split(processor.chunk_size, t)]
    /\ UNCHANGED <<processor, formatterVars, configVars, cmd>>

\* TextProcessor._fallback_split(t), called on the instance directly
FallbackSplit(t) ==
    /\ processor.state = "ready"
    /\ split' = [call |-> "_fallback_split", chunk_size |-> processor.chunk_size,
                 file_type |-> processor.file_type, again |-> Again(t),
                 text |-> t, primary |-> NotCalled, path |-> "fallback",
                 chunks |-> _fallback_split(processor.chunk_size, t)]
    /\ UNCHANGED <<processor, formatterVars, configVars, cmd>>

NextSplitter ==
    \/ \E cs \in ChunkSizes, m \in Models, ft \in FileTypes, created \in BOOLEAN :
           NewTextProcessor(cs, m, ft, created)
    \/ \E t \in SplitTexts, p \in PrimaryOutcomes : SplitText(t, p)
    \/ \E t \in FallbackTexts : FallbackSplit(t)

SpecSplitter == InitSplitter /\ [][NextSplitter]_vars

(***************************************************************************)
(* State: the file at one config_path.  Every call goes through a          *)
(* ConfigManager on that path; a manager keeps nothing but the path.       *)
(***************************************************************************)

InitConfig ==
    /\ FormatterIdle /\ SplitterIdle /\ ProcessIdle
    /\ config_file \in InitialFiles
    /\ began_absent = (config_file.kind = "absent")
    /\ config = Config
    /\ config_call = NoConfigCall
    /\ named = to_dict(Config)

\* ConfigManager(config_path).load()
Load ==
    /\ LET r == load(config_file)
       IN  /\ config' = IF r.raised THEN config ELSE r.config
           /\ config_call' = [name |-> "load", kwargs |-> NoData,
                              raised |-> r.raised, error |-> r.error]
    /\ UNCHANGED <<config_file, named, began_absent>>
    /\ UNCHANGED <<formatterVars, splitterVars, cmd>>

\* ConfigManager(config_path).update(**kwargs)
Update(kwargs) ==
    /\ LET r == update(config_file, kwargs)
       IN  /\ config_file' = r.file
           /\ config' = IF r.raised THEN config ELSE r.config
           /\ config_call' = [name |-> "update", kwargs |-> kwargs,
                              raised |-> r.raised, error |-> r.error]
    /\ named' = [k \in ConfigFields |->
                    IF k \in DOMAIN kwargs THEN kwargs[k] ELSE named[k]]
    /\ UNCHANGED began_absent
    /\ UNCHANGED <<formatterVars, splitterVars, cmd>>

NextConfig ==
    \/ Load
    \/ \E kwargs \in UpdateArgs : Update(kwargs)

SpecConfig == InitConfig /\ [][NextConfig]_vars

(***************************************************************************)
(* State: one run of the process command, with the config file it finds.   *)
(***************************************************************************)

InitProcess ==
    /\ FormatterIdle /\ SplitterIdle /\ ProcessIdle
    /\ config_file \in InitialFiles
    /\ began_absent = (config_file.kind = "absent")
    /\ config = Config
    /\ config_call = NoConfigCall
    /\ named = to_dict(Config)

\* cut-it process <input> [--output] [--size] [--model] [--type]
Process(input, output, size, model, force_type, created, primary) ==
    /\ cmd.run.name = "none"
    /\ \E run \in {process(config_file, input, output, size, model, force_type,
                            created, primary)} :
           /\ cmd' = [input |-> input, output |-> output, size |-> size,
                      model |-> model, force_type |-> force_type,
                      created |-> created, primary |-> primary, run |-> run]
           /\ config_file' = FileAfter(config_file, run.written)
    /\ UNCHANGED <<config, config_call, named, began_absent>>
    /\ UNCHANGED <<formatterVars, splitterVars>>

NextProcess ==
    \E input \in InputFiles, output \in OutputOptions, size \in SizeOptions,
       model \in ModelOptions, force_type \in TypeOptions, created \in BOOLEAN,
       primary \in PrimaryOutcomes :
        Process(input, output, size, model, force_type, created, primary)

SpecProcess == InitProcess /\ [][NextProcess]_vars

(***************************************************************************)
(* Vocabulary of the properties: the canonical text encoding, written from *)
(* the label table of localization.py and the layout of a task block.      *)
(***************************************************************************)

\* localization.get_messages, the status, task and progress entries
get_messages(ptbr) ==
    IF ptbr
    THEN [pending |-> "Pendente", started |-> "Iniciado", completed |-> "Concluido",
          task |-> "TAREFA", progress |-> "Progresso"]
    ELSE [pending |-> "Pending", started |-> "Started", completed |-> "Completed",
          task |-> "TASK", progress |-> "Progress"]

msg == get_messages(pt_br)

StatusSequence == <<"Pending", "Started", "Completed">>

\* the position of a status in the order Pending, Started, Completed
Position(s) == CHOOSE k \in 1..Len(StatusSequence) : StatusSequence[k] = s

LocalName(s) == msg[Lower(s)]

\* the header line of task i
HeaderOf(i) == "## " \o msg.task \o " " \o Str(i)

\* the progress line of a task whose status is s
ProgressLineOf(s) == "**" \o msg.progress \o ":** " \o LocalName(s)

\* line k of the checklist of a task whose status is s
ChecklistLineOf(s, k) ==
    "- " \o (IF k <= Position(s) THEN CHECKED ELSE UNCHECKED) \o " "
         \o LocalName(StatusSequence[k])

\* the positions in L of the lines that open the block of task i: the header
\* that follows a divider and a blank line
BlockHeaders(L, i) ==
    {h \in 3..Len(L) : L[h] = HeaderOf(i) /\ L[h - 1] = "" /\ L[h - 2] = "---"}

\* the block at header position h shows status s: its progress line, a blank
\* line, the three checklist lines and a blank line
BlockShows(L, h, s) ==
    /\ Len(L) >= h + 6
    /\ L[h + 1] = ProgressLineOf(s)
    /\ L[h + 2] = ""
    /\ \A k \in 1..Len(StatusSequence) : L[h + 2 + k] = ChecklistLineOf(s, k)
    /\ L[h + 3 + Len(StatusSequence)] = ""

\* the lines L hold exactly one block of task i and it shows status s
ShowsStatus(L, i, s) ==
    /\ Cardinality(BlockHeaders(L, i)) = 1
    /\ \A h \in BlockHeaders(L, i) : BlockShows(L, h, s)

\* the number of lines format_as_tasks writes for the content of chunk c
ContentLines(c) == Len(Split(Strip(c)))

\* the position, in the lines of the rendered document, of the header of task i
RECURSIVE HeaderPosition(_, _)
HeaderPosition(cs, i) ==
    IF i = 1 THEN 5
    ELSE HeaderPosition(cs, i - 1) + 10 + ContentLines(cs[i - 1])

\* the positions of task i's progress line and checklist lines in the rendered
\* document; none when the document has no task i
MutablePositions(cs, i) ==
    IF i \in 1..Len(cs)
    THEN LET h == HeaderPosition(cs, i) IN {h + 1, h + 3, h + 4, h + 5}
    ELSE {}

\* some line of text d, trimmed, is the header of task i
HasHeader(d, i) == LET L == Split(d) IN \E k \in 1..Len(L) : Strip(L[k]) = HeaderOf(i)

\* sub occurs in s (Python: sub in s)
Contains(s, sub) ==
    \E k \in 1..(Len(s) - Len(sub) + 1) : SubSeq(s, k, k + Len(sub) - 1) = sub

Fresh == origin = "rendered" /\ history = "none"

FirstUpdate == origin = "rendered" /\ history = "one" /\ call.name = "update_task_status"

(***************************************************************************)
(* Properties                                                              *)
(***************************************************************************)

\* C1 (isolation): the first update of a rendered document, addressed to task
\* i, leaves the document with the same number of lines and changes no line
\* other than task i's progress line and its three checklist lines.
C1_Isolation ==
    FirstUpdate =>
        LET A == Split(rendered)
            B == Split(content)
            M == MutablePositions(chunks, call.task_number)
        IN  /\ Len(B) = Len(A)
            /\ \A k \in 1..Len(A) : k \notin M => B[k] = A[k]

\* C2 (round trip of content): extract_task_content on a freshly rendered
\* document returns, for every task i, chunk i with its leading and trailing
\* whitespace removed.
C2_RoundTripContent ==
    (Fresh /\ call.name = "extract_task_content" /\ call.task_number \in 1..Len(chunks))
        => call.text = Strip(chunks[call.task_number])

\* C3 (round trip of count): get_task_count on a freshly rendered document
\* returns the number of chunks it was rendered from.
C3_RoundTripCount ==
    (Fresh /\ call.name = "get_task_count") => call.count = Len(chunks)

\* C4 (idempotence): an update that gives a task of a rendered document the
\* status it already has returns the text unchanged.
C4_Idempotence ==
    [][(/\ origin = "rendered"
        /\ call'.name = "update_task_status"
        /\ call'.task_number \in DOMAIN assigned
        /\ assigned[call'.task_number] = call'.new_status)
       => content' = content]_vars

\* C5 (effect of an update): after an update of a rendered document addressed
\* to an existing task i with status s, task i's progress line names s and
\* its checklist is the three lines Pending, Started, Completed, checked up
\* to the position of s.
C5_UpdateEffect ==
    (FirstUpdate /\ call.task_number \in 1..Len(chunks))
        => ShowsStatus(Split(content), call.task_number, call.new_status)

C5_Witness ==
    /\ FirstUpdate
    /\ Len(chunks) = 2
    /\ call.task_number = 2
    /\ call.new_status = "Started"
    /\ Split(content)[HeaderPosition(chunks, 2) + 4] = "- X " \o msg.started
    /\ Split(content)[HeaderPosition(chunks, 2) + 5] = "- O " \o msg.completed

\* C6 (non-existent ordinal): on any text none of whose lines is the header
\* of task n, update_task_status returns the text unchanged and
\* extract_task_content returns the empty string.
C6_NoSuchTask ==
    [][(~IsRead /\ ~HasHeader(content, call'.task_number))
       => /\ call'.name = "update_task_status" => content' = content
          /\ call'.name = "extract_task_content" => call'.text = ""]_vars

C6_Witness ==
    /\ origin = "rendered"
    /\ Len(chunks) = 2
    /\ call.name = "update_task_status"
    /\ call.task_number = 3
    /\ call.new_status = "Started"
    /\ ~HasHeader(content, 3)
    /\ content = rendered

C9_EmptyRender ==
    /\ (call.name = "format_as_tasks" /\ Len(chunks) = 0)
        => /\ content = "# " \o filename \o "\n" \o "\n" \o "---\n" \o "\n"
                        \o "No content to process.\n" \o "\n" \o "---\n"
           /\ \A i \in TaskNumbers : ~HasHeader(content, i)
    /\ (Fresh /\ Len(chunks) = 0 /\ call.name = "get_task_count") => call.count = 0

C9_Witness ==
    /\ Fresh
    /\ Len(chunks) = 0
    /\ call.name = "get_task_count"
    /\ call.count = 0
    /\ Contains(content, "No content to process.")

\* C10 (no forced monotonicity): two or more updates of a rendered document
\* addressed to the same task leave the text that the last of them alone
\* gives, whatever the statuses; and after any updates every task shows the
\* status of the last update addressed to it.
C10_LastUpdateWins ==
    /\ (origin = "rendered" /\ history = "same" /\ call.name = "update_task_status")
        => content = update_task_status(labels, rendered, call.task_number, call.new_status)
    /\ (origin = "rendered" /\ ~IsRead)
        => LET L == Split(content)
           IN  \A i \in DOMAIN assigned : ShowsStatus(L, i, assigned[i])

C10_Witness ==
    /\ origin = "rendered"
    /\ history = "same"
    /\ Len(chunks) = 2
    /\ call.name = "update_task_status"
    /\ call.task_number = 1
    /\ call.new_status = "Pending"
    /\ assigned = <<"Pending", "Pending">>
    /\ content = rendered

\* C11  On a text that format_as_tasks did not produce, no operation ends in
\* an exception, whatever the task number; get_task_count returns the number
\* of lines that carry the task-header prefix, and for a task number no line
\* is the header of, extract_task_content returns the empty string and
\* update_task_status returns the text unchanged.
C11_ForeignText ==
    [][(origin = "foreign" /\ ~IsRead) =>
          LET L == Split(content)
          IN  /\ ~call'.raised
              /\ call'.name = "get_task_count" =>
                     call'.count =
                         Cardinality({k \in 1..Len(L) : IsAnyTaskHeader(labels, L[k])})
              /\ (call'.name = "extract_task_content"
                      /\ ~HasHeader(content, call'.task_number)) => call'.text = ""
              /\ (call'.name = "update_task_status"
                      /\ ~HasHeader(content, call'.task_number)) => content' = content]_vars

\* a foreign text with task-like lines was read for a task it has no header of
C11_Witness ==
    /\ origin = "foreign"
    /\ call.name = "extract_task_content"
    /\ Contains(content, "## TASK 1")
    /\ ~HasHeader(content, call.task_number)
    /\ call.text = ""
    /\ ~call.raised

\* the positions in L of the lines of task i after its header: up to the
\* divider before the next task's header, or to the last divider
TaskRegion(L, i) ==
    LET h == CHOOSE k \in BlockHeaders(L, i) : TRUE
        last == IF BlockHeaders(L, i + 1) # {}
                THEN (CHOOSE k \in BlockHeaders(L, i + 1) : TRUE) - 3
                ELSE Len(L) - 1
    IN  (h + 1)..last

\* C26  Structural invariant of the document: in every document reached from
\* format_as_tasks by any sequence of update_task_status calls, every task
\* has exactly one progress line and exactly three checklist lines, in the
\* order Pending, Started, Completed, and the boxes checked are exactly those
\* up to the status its progress line names.
C26_Structure ==
    origin = "rendered" =>
        LET L == Split(content)
        IN  \A i \in 1..Len(chunks) :
                /\ Cardinality(BlockHeaders(L, i)) = 1
                /\ LET R == TaskRegion(L, i)
                       P == {k \in R : IsProgressLine(labels, L[k])}
                       B == {k \in R : IsCheckboxLine(L[k])}
                   IN  /\ Cardinality(P) = 1
                       /\ Cardinality(B) = 3
                       /\ \E s \in Statuses :
                              /\ \A k \in P : L[k] = ProgressLineOf(s)
                              /\ \E b \in B :
                                     \A k \in 1..Len(StatusSequence) :
                                         /\ b + k - 1 \in B
                                         /\ L[b + k - 1] = ChecklistLineOf(s, k)

\* C27  Status updates never change what the read operations return: on
\* any text, rendered or not, however many updates it went through, whatever
\* their task numbers and statuses, get_task_count returns what it returns
\* on the text before the updates, and extract_task_content returns, for
\* every task number, what it returns on the text before the updates.
C27_ReadsUnchanged ==
    /\ call.name = "get_task_count" => call.count = get_task_count(labels, obtained)
    /\ call.name = "extract_task_content" =>
           call.text = extract_task_content(labels, obtained, call.task_number)

\* task 1 of a rendered document was read after updates that changed the text
C27_Witness ==
    /\ origin = "rendered"
    /\ history = "mixed"
    /\ content # obtained
    /\ call.name = "extract_task_content"
    /\ call.task_number = 1
    /\ call.text = "a"
    /\ Len(chunks) = 2

\* C28  Updates to different tasks commute: on a rendered document d, for
\* distinct task numbers i and j and any statuses s and t, updating i to s
\* and then j to t gives the text that updating j to t and then i to s gives.
C28_Commute ==
    [][(/\ origin = "rendered"
        /\ history = "one"
        /\ call.name = "update_task_status"
        /\ call'.name = "update_task_status"
        /\ call'.task_number # call.task_number)
       => \E other \in {update_task_status(labels, rendered,
                                            call'.task_number, call'.new_status)} :
              content' = update_task_status(labels, other,
                                            call.task_number, call.new_status)]_vars

\* C29  Ordinals are matched exactly, not by prefix: in a rendered document
\* of ten or more tasks, after any updates, every task shows the status of
\* the last update addressed to it (Pending when there was none), so an
\* update of task 1 changes the block of no task 10..19, and every other line
\* is as rendered; extract_task_content returns the content of the task with
\* that number alone; and get_task_count counts every task header once.
C29_ExactOrdinal ==
    (origin = "rendered" /\ Len(chunks) >= 10) =>
        LET L == Split(content)
            R == Split(rendered)
            M == UNION {MutablePositions(chunks, i) : i \in 1..Len(chunks)}
        IN  /\ Len(L) = Len(R)
            /\ \A k \in 1..Len(R) : k \notin M => L[k] = R[k]
            /\ \A i \in 1..Len(chunks) : ShowsStatus(L, i, assigned[i])
            /\ call.name = "extract_task_content" =>
                   call.text = IF call.task_number \in 1..Len(chunks)
                               THEN Strip(chunks[call.task_number]) ELSE ""
            /\ call.name = "get_task_count" => call.count = Len(chunks)

\* in a document of eleven tasks, task 1 was completed and task 10 started,
\* and task 11 still shows Pending
C29_Witness ==
    /\ origin = "rendered"
    /\ Len(chunks) >= 11
    /\ assigned[1] = "Completed"
    /\ assigned[10] = "Started"
    /\ assigned[11] = "Pending"
    /\ call.name = "extract_task_content"
    /\ call.task_number = 1
    /\ call.text = "Chunk 1"
    /\ Contains(content, "## " \o msg.task \o " 11\n**" \o msg.progress \o ":** " \o msg.pending)

(***************************************************************************)
(* Vocabulary of the splitter properties                                   *)
(***************************************************************************)

\* s is a chunk as the specification defines one: non-empty, no leading or
\* trailing whitespace
IsChunk(s) ==
    /\ s # ""
    /\ ~IsSpace(CharAt(s, 1))
    /\ ~IsSpace(CharAt(s, Len(s)))

\* the positions of q whose element is not blank
NonBlank(q) == {k \in 1..Len(q) : \E j \in 1..Len(q[k]) : ~IsSpace(CharAt(q[k], j))}

\* r is q with the blank elements dropped and the others trimmed, in order
IsTrimmedSelection(r, q) ==
    /\ Len(r) = Cardinality(NonBlank(q))
    /\ \A k \in NonBlank(q) :
           r[Cardinality({j \in NonBlank(q) : j <= k})] = Strip(q[k])

\* the elements of q with a blank line between neighbours
RECURSIVE JoinParagraphs(_)
JoinParagraphs(q) ==
    IF Len(q) = 0 THEN ""
    ELSE IF Len(q) = 1 THEN q[1]
    ELSE q[1] \o "\n\n" \o JoinParagraphs(Tail(q))

\* C12  split_text returns an empty list for an empty or whitespace-only
\* text, and a non-empty list for every other text, whatever the primary
\* splitter returns or raises.
C12_Emptiness ==
    split.call = "split_text" =>
        (Len(split.chunks) = 0 <=> Strip(split.text) = "")

\* C13  Every chunk split_text returns, on the primary and on the fallback
\* path, is non-empty and has no leading or trailing whitespace; the chunks
\* that are blank are dropped and the others keep their order: the primary
\* path returns the library's non-blank chunks trimmed, in order, and the
\* fallback path returns the non-blank paragraphs trimmed, in order.
C13_ChunksTrimmed ==
    split.call = "split_text" =>
        /\ \A k \in 1..Len(split.chunks) : IsChunk(split.chunks[k])
        /\ split.path = "primary" =>
               IsTrimmedSelection(split.chunks, split.primary.chunks)
        /\ split.path = "fallback" =>
               LET r == StrippedNonEmpty(SplitParagraphs(split.text))
               IN  /\ IsTrimmedSelection(r, SplitParagraphs(split.text))
                   /\ JoinParagraphs(split.chunks) = JoinParagraphs(r)

\* the primary path dropped blank chunks and trimmed one
C13_Witness ==
    /\ split.call = "split_text"
    /\ split.path = "primary"
    /\ split.primary.chunks = <<"  ", "a", "", "b\n">>
    /\ split.chunks = <<"a", "b">>

\* C14  A failure of the primary splitter, in its construction or in its
\* call, is never surfaced to the caller of TextProcessor: no exception
\* leaves TextProcessor, and a call that fails is answered by the fallback.
C14_FailureSwallowed ==
    /\ processor.state # "raised"
    /\ (split.call = "split_text" /\ split.primary.raises) => split.path = "fallback"

\* the paragraphs of the text that are not blank, trimmed, in order
TrimmedParagraphs(text) == StrippedNonEmpty(SplitParagraphs(text))

\* the paragraphs the chunks are made of, in order
RECURSIVE ParagraphsOf(_)
ParagraphsOf(q) ==
    IF Len(q) = 0 THEN <<>> ELSE SplitParagraphs(q[1]) \o ParagraphsOf(Tail(q))

\* the elements of the sequence q
Elements(q) == {q[k] : k \in 1..Len(q)}

\* C21  Fallback size rule: against max, the second element of a tuple bound
\* or the integer itself, every chunk _fallback_split emits that is made of
\* two or more paragraphs has length <= max, and a chunk longer than max is
\* exactly one paragraph of the input, whole; a chunk is closed before the
\* next paragraph whenever its length, the paragraph's and 2 exceed max.
C21_SizeRule ==
    (split.path = "fallback" /\ Strip(split.text) # "") =>
        LET max == IF split.chunk_size.tuple THEN split.chunk_size.max
                   ELSE split.chunk_size.size
            r == split.chunks
        IN  /\ \A k \in 1..Len(r) :
                   /\ Len(SplitParagraphs(r[k])) >= 2 => Len(r[k]) <= max
                   /\ Len(r[k]) > max =>
                          /\ Len(SplitParagraphs(r[k])) = 1
                          /\ r[k] \in Elements(TrimmedParagraphs(split.text))
            /\ \A k \in 1..(Len(r) - 1) :
                   \A j \in 1..Len(SplitParagraphs(r[k])) :
                       LET head == JoinParagraphs(SubSeq(SplitParagraphs(r[k]), 1, j))
                           next == IF j < Len(SplitParagraphs(r[k]))
                                   THEN SplitParagraphs(r[k])[j + 1]
                                   ELSE SplitParagraphs(r[k + 1])[1]
                       IN  (Len(head) + Len(next) + 2 > max)
                               <=> j = Len(SplitParagraphs(r[k]))

\* a chunk of three paragraphs within the bound, then a paragraph longer than
\* the bound as a chunk of its own
C21_Witness ==
    /\ split.call = "_fallback_split"
    /\ split.chunk_size = [tuple |-> TRUE, min |-> 5, max |-> 12]
    /\ split.chunks = <<"a\n\nbb\n\nccc", "dddddddddddddd", "e">>

\* C22  The fallback preserves content and order: the chunks _fallback_split
\* returns, joined by a blank line in order, are the trimmed non-blank
\* paragraphs of the input joined by a blank line in input order, and the
\* paragraphs the chunks are made of are those paragraphs, each once, whole
\* and in input order.
C22_ContentPreserved ==
    split.path = "fallback" =>
        LET r == TrimmedParagraphs(split.text)
        IN  /\ JoinParagraphs(split.chunks) = JoinParagraphs(r)
            /\ Len(r) > 0 => ParagraphsOf(split.chunks) = r

\* three paragraphs apart by blank paragraphs came back as one chunk
C22_Witness ==
    /\ split.call = "_fallback_split"
    /\ split.text = "Para 1\n\n\n\nPara 2\n\n\n\nPara 3"
    /\ split.chunk_size = [tuple |-> TRUE, min |-> 300, max |-> 500]
    /\ split.chunks = <<"Para 1\n\nPara 2\n\nPara 3">>

\* C23  On an input none of whose paragraphs survives trimming,
\* _fallback_split returns the whole trimmed input as a single chunk, except
\* that for an empty or whitespace-only input it returns an empty sequence,
\* never a sequence holding an empty chunk.
C23_NoSurvivors ==
    (split.path = "fallback" /\ Len(TrimmedParagraphs(split.text)) = 0) =>
        /\ split.chunks = IF Strip(split.text) = "" THEN <<>> ELSE <<Strip(split.text)>>
        /\ "" \notin Elements(split.chunks)

FieldDefaults ==
    [chunk_size_min |-> 300, chunk_size_max |-> 500, model |-> "gpt-4",
     pt_br |-> FALSE, cli_mode |-> TRUE]

\* c holds exactly the values v for the five fields, and nothing else
HasFieldValues(c, v) ==
    /\ DOMAIN c = ConfigFields \cup {"shadowed"}
    /\ c.shadowed = {}
    /\ \A k \in ConfigFields : c[k] = v[k]

\* the members of kwargs that name a field
FieldsOf(kwargs) == [k \in DOMAIN kwargs \cap ConfigFields |-> kwargs[k]]

\* C15  load never fails: it returns the field defaults when the file is
\* missing, not valid JSON, undecodable, or valid JSON of another shape than
\* an object, and no exception reaches the caller.
C15_LoadNeverFails ==
    config_call.name = "load" =>
        /\ ~config_call.raised
        /\ config_file.kind # "object" => HasFieldValues(config, FieldDefaults)

\* C16  update applies only the keys that are Config fields: the Config it
\* returns and the record it leaves in the file are those of the same update
\* without the other keys, no exception is raised, and the file then holds
\* the fields of the Config returned.
C16_OnlyFields ==
    [][(config_call'.name = "update" /\ ~load(config_file).raised) =>
          LET only == update(config_file, FieldsOf(config_call'.kwargs))
          IN  /\ ~config_call'.raised
              /\ config' = only.config
              /\ config_file' = only.file
              /\ config_file' = [kind |-> "object", data |-> to_dict(config')]]_vars

\* C17  On a path that began without a file, after any sequence of update
\* calls, load returns for each field the value of the most recent update
\* that named it and the default for a field no update named.
C17_Persistence ==
    (began_absent /\ config_call.name = "load") =>
        /\ ~config_call.raised
        /\ HasFieldValues(config, named)

\* C18  Loading a record: a field the record lacks takes its default, a field
\* it has takes the record's value, and a member that is not a field is
\* ignored: load raises nothing and the Config has the five fields alone.
C18_PartialRecord ==
    (config_call.name = "load" /\ config_file.kind = "object") =>
        /\ ~config_call.raised
        /\ HasFieldValues(config,
               [k \in ConfigFields |->
                   IF k \in DOMAIN config_file.data THEN config_file.data[k]
                   ELSE FieldDefaults[k]])

\* a record with a missing field and an unknown member was loaded
C18_Witness ==
    /\ config_call.name = "load"
    /\ config_file.kind = "object"
    /\ "unknown_key" \in DOMAIN config_file.data
    /\ "pt_br" \notin DOMAIN config_file.data
    /\ config.model = "gpt-3.5-turbo"
    /\ config.pt_br = FALSE

\* C20  In every configuration reachable from the defaults by update calls,
\* chunk_size_min and chunk_size_max are positive and min <= max.
C20_BoundsValid ==
    (began_absent /\ config_call.name # "none" /\ ~config_call.raised) =>
        /\ config.chunk_size_min > 0
        /\ config.chunk_size_max > 0
        /\ config.chunk_size_min <= config.chunk_size_max

\* the steps of the process command in the order the specification gives
Pipeline ==
    <<"load", "exists", "read", "TextProcessor", "split_text", "format_as_tasks", "write">>

\* path is name with what follows its last dot replaced by suffix
ReplacesExtension(path, name, suffix) ==
    \E k \in 2..Len(name) :
        /\ CharAt(name, k) = "."
        /\ \A j \in (k + 1)..Len(name) : CharAt(name, j) # "."
        /\ path = SubSeq(name, 1, k - 1) \o suffix

\* C25  Order of the process pipeline: the command reads the input, splits
\* it, formats the chunks and writes the output, in that order; a run that
\* ends with exit code 0 wrote one file, once: the --output path, or the input
\* path with its extension replaced by '.tasks.md', holding what
\* format_as_tasks returned for the chunks of split_text; and a run that
\* exits on a missing input file or a decode error wrote nothing.
C25_PipelineOrder ==
    [][(cmd.run.name = "none" /\ cmd'.run.name = "process") =>
          LET run == cmd'.run
              input == cmd'.input
              c == Override(load(config_file).config, cmd'.size, cmd'.model)
          IN  /\ Len(run.steps) <= Len(Pipeline)
              /\ run.steps = SubSeq(Pipeline, 1, Len(run.steps))
              /\ Len(run.written) <= 1
              /\ Len(run.written) = 1 <=> run.steps = Pipeline
              /\ run.exit_code = 0 => Len(run.written) = 1
              /\ (~input.exists \/ ~input.decodable) => Len(run.written) = 0
              /\ Len(run.written) = 1 =>
                     /\ IF cmd'.output.given
                        THEN run.written[1].path = cmd'.output.value
                        ELSE ReplacesExtension(run.written[1].path, input.name,
                                               ".tasks.md")
                     /\ run.written[1].text =
                            format_as_tasks(_get_labels(c.pt_br),
                                split_text([tuple |-> TRUE, min |-> c.chunk_size_min,
                                            max |-> c.chunk_size_max],
                                           input.text, cmd'.primary),
                                input.name, "Pending")]_vars

\* a run without --output on a name with two dots wrote the default path
C25_Witness ==
    /\ cmd.run.name = "process"
    /\ cmd.run.exit_code = 0
    /\ ~cmd.output.given
    /\ cmd.input.name = "archive.tar.gz"
    /\ cmd.primary.raises
    /\ cmd.run.steps = Pipeline
    /\ Len(cmd.run.written) = 1
    /\ cmd.run.written[1].path = "archive.tar.tasks.md"
    /\ Contains(cmd.run.written[1].text, "## TASK 1\n")

\* C30  The process command never changes the persisted configuration:
\* --size and --model override the loaded values for that run only, and after
\* the command ends, with any exit code, the config file is as it was before.
C30_ConfigUntouched ==
    [][cmd'.run.name = "process" => config_file' = config_file]_vars

\* C19  The process command exits with code 1 when the input file does not
\* exist and when it is not UTF-8 text, and with code 0 in every other case.
C19_ExitCodes ==
    cmd.run.name = "process" =>
        cmd.run.exit_code =
            IF ~cmd.input.exists \/ ~cmd.input.decodable THEN 1 ELSE 0

====
